---------------------------- MODULE Spec2Model ----------------------------
(***************************************************************************)
(* Model of the two HyTEST notebooks:                                      *)
(*   model_evaluation/tutorials/nwm_streamflow/02_Analysis_NWM.ipynb       *)
(*     the per-gage benchmark compute_benchmark, its dask-bag batch and    *)
(*     the assembly of the result table;                                   *)
(*   dataset_access/conus404_regrid.ipynb                                  *)
(*     bbox2ij and the index subset taken from it.                         *)
(*                                                                         *)
(* Timestamps are whole hours since day 0, 00:00.  A daily period is the   *)
(* day number.  A floating-point value is an exact fraction <<num, den>>   *)
(* (den >= 1); NaN is <<0, 0>>.  A pandas Series is a sequence of          *)
(* <<index, value>> pairs, a DataFrame a sequence of rows.                 *)
(***************************************************************************)
EXTENDS Integers, Sequences, FiniteSets, TLC

VARIABLES
    cat,          \* the intake catalog: what cat[obs_data_src] / cat[mod_data_src] hold
    obs_data,     \* kernel global obs_data (a DataArray handle, or unbound)
    mod_data,     \* kernel global mod_data
    domain,       \* cobalt.index.tolist(): the gage identifiers of the benchmark
    pc,           \* the notebook cell the run has reached
    test_out,     \* Out[17]: what the single-gage test cell returned
    unit,         \* per bag element: "pending", "running" or "done"
    outcome,      \* per bag element: what compute_benchmark returned on the worker
    finished,     \* the bag elements in the order their calls returned
    results,      \* results = bag.compute()
    log,          \* records handed to logging.info
    results_df,   \* the assembled table
    \* one invocation of compute_benchmark, statement by statement (SpecAlign)
    cb_pc, cb_gage, cb_obs, cb_mod, cb_df, cb_ret, cb_log,
    \* the regridding notebook (SpecRegrid)
    lon, lat, bbox, rg_pc, inside, ij, subset

batchVars == <<cat, obs_data, mod_data, domain, pc, test_out, unit, outcome,
               finished, results, log, results_df>>
cbVars    == <<cb_pc, cb_gage, cb_obs, cb_mod, cb_df, cb_ret, cb_log>>
rgVars    == <<lon, lat, bbox, rg_pc, inside, ij, subset>>
vars      == <<batchVars, cbVars, rgVars>>

----------------------------------------------------------------------------
(* Values *)

NaN == <<0, 0>>
IsNaN(v) == v[2] = 0
Num(n) == <<n, 1>>

RECURSIVE Gcd(_, _)
Gcd(a, b) == IF b = 0 THEN a ELSE Gcd(b, a % b)

\* the fraction n/d (n >= 0, d >= 1) in lowest terms
Frac(n, d) == LET g == Gcd(n, d) IN <<n \div g, d \div g>>

\* a/b + c/d
FracAdd(x, y) == Frac(x[1] * y[2] + y[1] * x[2], x[2] * y[2])

RECURSIVE SumVals(_)
SumVals(s) == IF s = <<>> THEN Num(0) ELSE FracAdd(Head(s), SumVals(Tail(s)))

\* Series.mean() of one resample bin: NaN values are skipped, an empty bin is NaN
Mean(vs) ==
    LET present == SelectSeq(vs, LAMBDA v : ~IsNaN(v))
        total   == SumVals(present)
    IN  IF present = <<>> THEN NaN
        ELSE Frac(total[1], total[2] * Len(present))

----------------------------------------------------------------------------
(* Python outcomes: a value, or a raised exception *)

Ok(v)     == [ok |-> TRUE, val |-> v, exc |-> ""]
Raise(e)  == [ok |-> FALSE, val |-> <<>>, exc |-> e]

None == [kind |-> "None"]

----------------------------------------------------------------------------
(* xarray / pandas operations used by compute_benchmark *)

HoursPerDay == 24
OffsetHours == 5

\* A DataArray handle with dims (gage_id, time):
\*   bound  FALSE when the Python name is not bound (NameError on use)
\*   index  "datetime" when the time coordinate is datetime64, else "int"
\*   time   the time coordinate, vals[g] the values of gage g along it
Unbound == [bound |-> FALSE, index |-> "int", time |-> <<>>, vals |-> <<>>]
DataArray(k, t, v) == [bound |-> TRUE, index |-> k, time |-> t, vals |-> v]

Series(k, r) == [index |-> k, rows |-> r]

\* da.sel(gage_id=g).load(...).to_series()
SelToSeries(da, g) ==
    IF ~da.bound THEN Raise("NameError")
    ELSE IF g \notin DOMAIN da.vals THEN Raise("KeyError")
    ELSE Ok(Series(da.index, [i \in 1..Len(da.time) |-> <<da.time[i], da.vals[g][i]>>]))

\* the bin of Series.resample('1D', offset='5h') a timestamp falls in
Bin(t) == (t - OffsetHours) \div HoursPerDay
BinLabel(b) == b * HoursPerDay + OffsetHours

RECURSIVE MinOf(_)
MinOf(S) == LET x == CHOOSE y \in S : TRUE
            IN  IF S = {x} THEN x
                ELSE LET r == MinOf(S \ {x}) IN IF x < r THEN x ELSE r
RECURSIVE MaxOf(_)
MaxOf(S) == LET x == CHOOSE y \in S : TRUE
            IN  IF S = {x} THEN x
                ELSE LET r == MaxOf(S \ {x}) IN IF x > r THEN x ELSE r

\* mutant: the predicted series is left at its native time step
ResampleMeanSkipped(s) ==
    IF s.index # "datetime" THEN Raise("TypeError") ELSE Ok(s)

\* s.resample('1D', offset='5h').mean(): one row per bin from the first to the
\* last bin that holds a timestamp, labelled with the bin's left edge
ResampleMean(s) ==
    IF s.index # "datetime" THEN Raise("TypeError")
    ELSE IF s.rows = <<>> THEN Ok(Series("datetime", <<>>))
    ELSE LET bins == {Bin(s.rows[i][1]) : i \in 1..Len(s.rows)}
             b0   == MinOf(bins)
             b1   == MaxOf(bins)
             inBin(b) == SelectSeq(s.rows, LAMBDA r : Bin(r[1]) = b)
             valsOf(b) == [i \in 1..Len(inBin(b)) |-> inBin(b)[i][2]]
         IN  Ok(Series("datetime",
                 [k \in 1..(b1 - b0 + 1) |->
                     <<BinLabel(b0 + k - 1), Mean(valsOf(b0 + k - 1))>>]))

\* s.index = s.index.to_period('D')
ToPeriod(s) ==
    IF s.index # "datetime" THEN Raise("AttributeError")
    ELSE Ok(Series("period",
            [i \in 1..Len(s.rows) |-> <<s.rows[i][1] \div HoursPerDay, s.rows[i][2]>>]))

Row(p, o, m) == [period |-> p, observed |-> o, predicted |-> m]

\* mutant: the two series paired row by row, whatever their index
MergePositional(obs, mod) ==
    [i \in 1..(IF Len(obs) < Len(mod) THEN Len(obs) ELSE Len(mod)) |->
        Row(obs[i][1], obs[i][2], mod[i][2])]

\* pd.merge(obs, mod, left_index=True, right_index=True): inner join on the
\* index, left order kept, one row per matching pair of rows
RECURSIVE Merge(_, _)
Merge(obs, mod) ==
    IF obs = <<>> THEN <<>>
    ELSE LET o == Head(obs)
             hits == SelectSeq(mod, LAMBDA r : r[1] = o[1])
         IN  [i \in 1..Len(hits) |-> Row(o[1], o[2], hits[i][2])]
             \o Merge(Tail(obs), mod)

\* mutant: .dropna(how='all')
DropNaHowAll(df) == SelectSeq(df, LAMBDA r : ~(IsNaN(r.observed) /\ IsNaN(r.predicted)))

\* .dropna(how='any')
DropNa(df) == SelectSeq(df, LAMBDA r : ~IsNaN(r.observed) /\ ~IsNaN(r.predicted))

MergeDropNa(obs, mod) ==
    IF obs.index # mod.index THEN Raise("ValueError")
    ELSE Ok(DropNa(Merge(obs.rows, mod.rows)))

Column(df, c) == [i \in 1..Len(df) |-> df[i][c]]

----------------------------------------------------------------------------
(* The metric suite (Metrics_NWM_StdSuite_v1.ipynb, run into the kernel by    *)
(* %run).  Each metric is a pure function of the two columns: its value is    *)
(* kept as the uninterpreted term <<metric, observed, predicted>>, and it      *)
(* raises on an empty pair or when a denominator of its formula is zero.       *)

MetricNames == <<"NSE", "KGE", "logNSE", "pbias", "rSD", "pearson", "spearman",
                 "pBiasFMS", "pBiasFLV", "pBiasFHV">>
MetricSet == {MetricNames[i] : i \in 1..Len(MetricNames)}

Constant(col) == \A i \in 1..Len(col) : col[i] = col[1]

MetricRaises(m, o, p) ==
    \/ o = <<>>
    \/ m \in {"NSE", "logNSE", "KGE", "rSD", "pearson", "spearman"} /\ Constant(o)
    \/ m \in {"KGE", "pearson", "spearman"} /\ Constant(p)
    \/ m \in {"pbias", "KGE", "pBiasFMS", "pBiasFLV", "pBiasFHV"} /\ SumVals(o)[1] = 0

Metric(m, o, p) == IF MetricRaises(m, o, p) THEN Raise("ZeroDivisionError")
                   ELSE Ok(<<m, o, p>>)

----------------------------------------------------------------------------
(* compute_benchmark, statement by statement *)

\* lines 387-388: both series fetched, the predicted one resampled to days
CbFetch(od, md, gage_id) ==
    LET o == SelToSeries(od, gage_id)
        m == SelToSeries(md, gage_id)
        r == ResampleMean(m.val)
    IN  IF ~o.ok THEN o
        ELSE IF ~m.ok THEN m
        ELSE IF ~r.ok THEN r
        ELSE Ok([obs |-> o.val, mod |-> r.val])

\* lines 391-392: both indices to daily periods
CbAlign(obs, mod) ==
    LET o == ToPeriod(obs)
        m == ToPeriod(mod)
    IN  IF ~o.ok THEN o
        ELSE IF ~m.ok THEN m
        ELSE Ok([obs |-> o.val, mod |-> m.val])

\* line 395
CbMerge(obs, mod) == MergeDropNa(obs, mod)

\* mutant: the Series is built without name=gage_id
CbScoreUnnamed(gage_id, gage_df) ==
    LET o == Column(gage_df, "observed")
        p == Column(gage_df, "predicted")
    IN  IF \E m \in MetricSet : ~Metric(m, o, p).ok THEN Raise("ZeroDivisionError")
        ELSE Ok([kind |-> "Series", name |-> "",
                 data |-> [m \in MetricSet |-> Metric(m, o, p).val]])

\* mutant: each metric guarded on its own, the metrics that raise left out
CbScorePartial(gage_id, gage_df) ==
    LET o == Column(gage_df, "observed")
        p == Column(gage_df, "predicted")
        good == {m \in MetricSet : Metric(m, o, p).ok}
    IN  IF good = {} THEN Raise("ZeroDivisionError")
        ELSE Ok([kind |-> "Series", name |-> gage_id,
                 data |-> [m \in good |-> Metric(m, o, p).val]])

\* lines 397-413: the ten metrics in the order of the dict literal, then the
\* Series named after the gage
CbScore(gage_id, gage_df) ==
    LET o == Column(gage_df, "observed")
        p == Column(gage_df, "predicted")
        failing == {i \in 1..Len(MetricNames) : ~Metric(MetricNames[i], o, p).ok}
    IN  IF failing # {} THEN Metric(MetricNames[MinOf(failing)], o, p)
        ELSE Ok([kind |-> "Series", name |-> gage_id,
                 data |-> [m \in MetricSet |-> Metric(m, o, p).val]])

\* the try block, lines 385-413
CbTry(od, md, gage_id) ==
    LET f == CbFetch(od, md, gage_id)
        a == CbAlign(f.val.obs, f.val.mod)
        j == CbMerge(a.val.obs, a.val.mod)
        s == CbScore(gage_id, j.val)
    IN  IF ~f.ok THEN [f EXCEPT !.val = "fetch"]
        ELSE IF ~a.ok THEN [a EXCEPT !.val = "align"]
        ELSE IF ~j.ok THEN [j EXCEPT !.val = "merge"]
        ELSE IF ~s.ok THEN [s EXCEPT !.val = "score"]
        ELSE s

LogRecord(gage_id) == [msg |-> "Benchmark failed for %s", arg |-> gage_id]

\* mutant: the handler returns None without the logging call
CbExceptSilent(gage_id) == [ret |-> None, log |-> <<>>, raised |-> FALSE]

\* mutant: the handler raises the exception again (line 415 uncommented)
CbExceptReraise(gage_id) == [ret |-> None, log |-> <<>>, raised |-> TRUE]

\* lines 414-417: except Exception: log, return None
CbExcept(gage_id) == [ret |-> None, log |-> <<LogRecord(gage_id)>>, raised |-> FALSE]

\* compute_benchmark(gage_id) against the kernel globals od, md:
\* what it returns, what it logs, and whether an exception leaves it
compute_benchmark(od, md, gage_id) ==
    LET t == CbTry(od, md, gage_id)
    IN  IF t.ok THEN [ret |-> t.val, log |-> <<>>, raised |-> FALSE]
        ELSE CbExcept(gage_id)

----------------------------------------------------------------------------
(* Inputs of the benchmark run *)

Gages == {"USGS-01030350", "USGS-01011000", "USGS-01013500"}
TestGage == "USGS-01030350"

\* gages the datasets of the batch run may hold; the third gage of the domain
\* list is in neither dataset
DataGages == {"USGS-01030350", "USGS-01011000"}

NumWorkers == 2

\* daily observations at midnight; predictions at 05:00 and 17:00 of day 0 and
\* 05:00 of day 1
BatchObsTime == <<0, 24>>
BatchModTime == <<5, 17, 29>>
BatchObsVals == {<<Num(1), Num(2)>>, <<Num(1), Num(1)>>, <<NaN, NaN>>}
BatchModVals == {<<Num(1), Num(3), Num(3)>>, <<Num(2), Num(2), Num(2)>>}

ValsOver(times, profiles) ==
    UNION {[S -> profiles] : S \in SUBSET DataGages}

\* an observed dataset whose time coordinate is not datetime64
IntObsData == DataArray("int", BatchObsTime, [g \in DataGages |-> <<Num(1), Num(2)>>])

BatchObsData == {DataArray("datetime", BatchObsTime, v) :
                    v \in ValsOver(BatchObsTime, BatchObsVals)}
                \cup {IntObsData}
BatchModData == {DataArray("datetime", BatchModTime, v) :
                    v \in ValsOver(BatchModTime, BatchModVals)}

CatalogEntry(l, h, da) == [listed |-> l, has_var |-> h, da |-> da]

\* a catalog that lists both datasets, each with the streamflow variable
GoodCatalogs ==
    {[obs |-> CatalogEntry(TRUE, TRUE, o), mod |-> CatalogEntry(TRUE, TRUE, m)] :
        o \in BatchObsData, m \in BatchModData}

\* a catalog that lacks a dataset name, or a dataset that lacks the variable
BadCatalogs ==
    LET o == CHOOSE x \in BatchObsData : DOMAIN x.vals = DataGages /\ x.index = "datetime"
        m == CHOOSE x \in BatchModData : DOMAIN x.vals = DataGages
    IN  {[obs |-> CatalogEntry(lo, ho, o), mod |-> CatalogEntry(lm, hm, m)] :
            lo \in BOOLEAN, ho \in BOOLEAN, lm \in BOOLEAN, hm \in BOOLEAN}
        \ {[obs |-> CatalogEntry(TRUE, TRUE, o), mod |-> CatalogEntry(TRUE, TRUE, m)]}

RECURSIVE Perms(_)
Perms(S) == IF S = {} THEN {<<>>}
            ELSE UNION {{<<x>> \o p : p \in Perms(S \ {x})} : x \in S}

\* the domain list: distinct gage identifiers in any order
Domains == UNION {Perms(S) : S \in SUBSET Gages}

\* what an earlier run of the load cell in the same kernel left in the globals
StaleObsData == DataArray("datetime", BatchObsTime, [g \in DataGages |-> <<Num(1), Num(2)>>])
StaleModData == DataArray("datetime", BatchModTime,
                          [g \in DataGages |-> <<Num(1), Num(3), Num(3)>>])

\* the globals obs_data, mod_data when the load cell starts: unbound in a fresh
\* kernel, or still bound by an earlier run of the cell
KernelGlobals == {<<Unbound, Unbound>>, <<StaleObsData, StaleModData>>}

NotRun == [kind |-> "NotRun"]
NoTable == [bound |-> FALSE, index_name |-> "", rows |-> <<>>]

CbIdle ==
    /\ cb_pc = "idle"
    /\ cb_gage = ""
    /\ cb_obs = Series("int", <<>>)
    /\ cb_mod = Series("int", <<>>)
    /\ cb_df = <<>>
    /\ cb_ret = NotRun
    /\ cb_log = <<>>

RgIdle ==
    /\ rg_pc = "idle"
    /\ lon = <<>>
    /\ lat = <<>>
    /\ bbox = <<>>
    /\ inside = <<>>
    /\ ij = <<>>
    /\ subset = {}

Init ==
    /\ cat \in GoodCatalogs \cup BadCatalogs
    /\ \E h \in KernelGlobals : obs_data = h[1] /\ mod_data = h[2]
    /\ domain \in Domains
    /\ pc = "load"
    /\ test_out = NotRun
    /\ unit = [i \in 1..Len(domain) |-> "pending"]
    /\ outcome = [i \in 1..Len(domain) |-> NotRun]
    /\ finished = <<>>
    /\ results = <<>>
    /\ log = <<>>
    /\ results_df = NoTable
    /\ CbIdle
    /\ RgIdle

----------------------------------------------------------------------------
(* The notebook, cell by cell *)

\* compute_benchmark over the datasets and gages of the batch run, tabulated
Bench == [od \in BatchObsData, md \in BatchModData, g \in Gages |->
             compute_benchmark(od, md, g)]

\* lines 143-158: bind obs_data and mod_data from the catalog
LoadData ==
    /\ pc = "load"
    /\ IF ~cat.obs.listed \/ ~cat.mod.listed
       THEN \* KeyError, printed and re-raised (lines 147-149)
            /\ pc' = "load raised"
            /\ UNCHANGED <<obs_data, mod_data>>
       ELSE LET \* lines 151-155: the KeyError is printed and swallowed
                od == IF cat.obs.has_var THEN cat.obs.da ELSE obs_data
                md == IF cat.obs.has_var /\ cat.mod.has_var THEN cat.mod.da ELSE mod_data
            IN  /\ obs_data' = od
                /\ mod_data' = md
                \* lines 157-158: NameError on a name that is not bound
                /\ pc' = IF od.bound /\ md.bound THEN "test" ELSE "load raised"
    /\ UNCHANGED <<cat, domain, test_out, unit, outcome, finished, results, log, results_df>>
    /\ UNCHANGED <<cbVars, rgVars>>

\* mutant: the call takes its gage out of the shared observed dataset
TestCellConsumes ==
    /\ pc = "test"
    /\ LET r == Bench[obs_data, mod_data, TestGage]
       IN  /\ test_out' = r.ret
           /\ log' = log \o r.log
           /\ pc' = IF r.raised THEN "test raised" ELSE "submit"
    /\ obs_data' = IF obs_data.index # "datetime" THEN obs_data
                   ELSE [obs_data EXCEPT !.vals =
                            [g \in (DOMAIN obs_data.vals) \ {TestGage} |-> obs_data.vals[g]]]
    /\ UNCHANGED <<cat, mod_data, domain, unit, outcome, finished, results, results_df>>
    /\ UNCHANGED <<cbVars, rgVars>>

\* line 462: compute_benchmark('USGS-01030350') in the kernel
TestCell ==
    /\ pc = "test"
    /\ LET r == Bench[obs_data, mod_data, TestGage]
       IN  /\ test_out' = r.ret
           /\ log' = log \o r.log
           /\ pc' = IF r.raised THEN "test raised" ELSE "submit"
    /\ UNCHANGED <<cat, obs_data, mod_data, domain, unit, outcome, finished, results, results_df>>
    /\ UNCHANGED <<cbVars, rgVars>>

\* lines 514-516: the bag is built and bag.compute() hands its elements to the workers
Submit ==
    /\ pc = "submit"
    /\ pc' = "compute"
    /\ UNCHANGED <<cat, obs_data, mod_data, domain, test_out, unit, outcome, finished,
                   results, log, results_df>>
    /\ UNCHANGED <<cbVars, rgVars>>

Running == {i \in DOMAIN unit : unit[i] = "running"}

\* mutant: the batch is abandoned once a unit has failed
UnitStartUnlessFailed(i) ==
    /\ pc = "compute"
    /\ unit[i] = "pending"
    /\ Cardinality(Running) < NumWorkers
    /\ \A k \in DOMAIN unit : unit[k] = "done" => outcome[k].ret # None
    /\ unit' = [unit EXCEPT ![i] = "running"]
    /\ UNCHANGED <<cat, obs_data, mod_data, domain, pc, test_out, outcome, finished,
                   results, log, results_df>>
    /\ UNCHANGED <<cbVars, rgVars>>

\* mutant: an element whose call returned None is handed out again
UnitStartRetry(i) ==
    /\ pc = "compute"
    /\ unit[i] = "pending" \/ (unit[i] = "done" /\ outcome[i].ret = None)
    /\ Cardinality(Running) < NumWorkers
    /\ unit' = [unit EXCEPT ![i] = "running"]
    /\ UNCHANGED <<cat, obs_data, mod_data, domain, pc, test_out, outcome, finished,
                   results, log, results_df>>
    /\ UNCHANGED <<cbVars, rgVars>>

\* a free worker takes the next element of the bag
UnitStart(i) ==
    /\ pc = "compute"
    /\ unit[i] = "pending"
    /\ Cardinality(Running) < NumWorkers
    /\ unit' = [unit EXCEPT ![i] = "running"]
    /\ UNCHANGED <<cat, obs_data, mod_data, domain, pc, test_out, outcome, finished,
                   results, log, results_df>>
    /\ UNCHANGED <<cbVars, rgVars>>

\* mutant: the gage identifier is a global the running units share
UnitFinishShared(i) ==
    /\ pc = "compute"
    /\ unit[i] = "running"
    /\ LET r == Bench[obs_data, mod_data, domain[MinOf(Running)]]
       IN  /\ outcome' = [outcome EXCEPT ![i] = r]
           /\ log' = log \o r.log
    /\ unit' = [unit EXCEPT ![i] = "done"]
    /\ finished' = Append(finished, i)
    /\ UNCHANGED <<cat, obs_data, mod_data, domain, pc, test_out, results, results_df>>
    /\ UNCHANGED <<cbVars, rgVars>>

\* mutant: the call takes its gage out of the shared observed dataset
UnitFinishConsumes(i) ==
    /\ pc = "compute"
    /\ unit[i] = "running"
    /\ LET r == Bench[obs_data, mod_data, domain[i]]
       IN  /\ outcome' = [outcome EXCEPT ![i] = r]
           /\ log' = log \o r.log
    /\ unit' = [unit EXCEPT ![i] = "done"]
    /\ finished' = Append(finished, i)
    /\ obs_data' = IF obs_data.index # "datetime" THEN obs_data
                   ELSE [obs_data EXCEPT !.vals =
                            [g \in (DOMAIN obs_data.vals) \ {domain[i]} |-> obs_data.vals[g]]]
    /\ UNCHANGED <<cat, mod_data, domain, pc, test_out, results, results_df>>
    /\ UNCHANGED <<cbVars, rgVars>>

\* mutant: a unit returns only after the units before it in the bag
UnitFinishInOrder(i) ==
    /\ pc = "compute"
    /\ unit[i] = "running"
    /\ \A k \in 1..(i - 1) : unit[k] = "done"
    /\ LET r == Bench[obs_data, mod_data, domain[i]]
       IN  /\ outcome' = [outcome EXCEPT ![i] = r]
           /\ log' = log \o r.log
    /\ unit' = [unit EXCEPT ![i] = "done"]
    /\ finished' = Append(finished, i)
    /\ UNCHANGED <<cat, obs_data, mod_data, domain, pc, test_out, results, results_df>>
    /\ UNCHANGED <<cbVars, rgVars>>

\* the worker's call compute_benchmark(domain[i]) returns
UnitFinish(i) ==
    /\ pc = "compute"
    /\ unit[i] = "running"
    /\ LET r == Bench[obs_data, mod_data, domain[i]]
       IN  /\ outcome' = [outcome EXCEPT ![i] = r]
           /\ log' = log \o r.log
    /\ unit' = [unit EXCEPT ![i] = "done"]
    /\ finished' = Append(finished, i)
    /\ UNCHANGED <<cat, obs_data, mod_data, domain, pc, test_out, results, results_df>>
    /\ UNCHANGED <<cbVars, rgVars>>

AllDone == \A i \in DOMAIN unit : unit[i] = "done"

\* mutant: the failed units are left out of what bag.compute() returns
GatherDropsFailed ==
    /\ pc = "compute"
    /\ AllDone
    /\ pc' = "assemble"
    /\ results' = SelectSeq([i \in DOMAIN outcome |-> outcome[i].ret], LAMBDA x : x # None)
    /\ UNCHANGED <<cat, obs_data, mod_data, domain, test_out, unit, outcome, finished, log,
                   results_df>>
    /\ UNCHANGED <<cbVars, rgVars>>

\* mutant: the kernel takes what has been returned so far, without waiting
GatherEarly ==
    /\ pc = "compute"
    /\ \E i \in DOMAIN unit : unit[i] = "done"
    /\ pc' = "assemble"
    /\ results' = [k \in 1..Len(finished) |-> outcome[finished[k]].ret]
    /\ UNCHANGED <<cat, obs_data, mod_data, domain, test_out, unit, outcome, finished, log,
                   results_df>>
    /\ UNCHANGED <<cbVars, rgVars>>

\* line 516: bag.compute() returns the outcomes in the order of the sequence;
\* an exception raised by an element is raised again in the kernel
Gather ==
    /\ pc = "compute"
    /\ AllDone
    /\ IF \E i \in DOMAIN outcome : outcome[i].raised
       THEN /\ pc' = "compute raised"
            /\ UNCHANGED results
       ELSE /\ pc' = "assemble"
            /\ results' = [i \in DOMAIN outcome |-> outcome[i].ret]
    /\ UNCHANGED <<cat, obs_data, mod_data, domain, test_out, unit, outcome, finished, log,
                   results_df>>
    /\ UNCHANGED <<cbVars, rgVars>>

\* line 791
DropNone(rs) == SelectSeq(rs, LAMBDA x : x # None)

\* line 792: pd.concat(r, axis=1).T, one row per Series, labelled with its name
ConcatT(r) == [i \in 1..Len(r) |-> [label |-> r[i].name, data |-> r[i].data]]

\* lines 791-794; pd.concat raises ValueError on an empty list
Assemble ==
    /\ pc = "assemble"
    /\ LET r == DropNone(results)
       IN  IF r = <<>>
           THEN /\ pc' = "assemble raised"
                /\ UNCHANGED results_df
           ELSE /\ results_df' = [bound |-> TRUE, index_name |-> "site_no",
                                  rows |-> ConcatT(r)]
                /\ pc' = "save"
    /\ UNCHANGED <<cat, obs_data, mod_data, domain, test_out, unit, outcome, finished, results,
                   log>>
    /\ UNCHANGED <<cbVars, rgVars>>

\* line 810: results_df.to_csv(...)
ToCsv ==
    /\ pc = "save"
    /\ pc' = "done"
    /\ UNCHANGED <<cat, obs_data, mod_data, domain, test_out, unit, outcome, finished,
                   results, log, results_df>>
    /\ UNCHANGED <<cbVars, rgVars>>

Next ==
    \/ LoadData
    \/ TestCell
    \/ Submit
    \/ \E i \in DOMAIN unit : UnitStart(i)
    \/ \E i \in DOMAIN unit : UnitFinish(i)
    \/ Gather
    \/ Assemble
    \/ ToCsv

Spec == Init /\ [][Next]_vars

----------------------------------------------------------------------------
(* One call of compute_benchmark, statement by statement, over every pair of   *)
(* small series                                                                *)

NObs == 2
NMod == 3
MaxVal == 1

Values == {NaN} \cup {Num(v) : v \in 0..MaxVal}

Stamps(n, start, step) == [i \in 1..n |-> start + (i - 1) * step]

Tuples(n, S) == [1..n -> S]

\* observations from midnight every 24 h or every 12 h; predictions every 12 h
\* from midnight or from 05:00, or every 36 h from midnight
ModGrids == {<<0, 12>>, <<5, 12>>, <<0, 36>>}
AlignObsData ==
    {DataArray("datetime", Stamps(NObs, 0, step), [g \in {TestGage} |-> v]) :
        step \in {12, 24}, v \in Tuples(NObs, Values)}
    \cup {DataArray("datetime", Stamps(NObs, 0, 24), [g \in {} |-> <<>>]),
          DataArray("int", Stamps(NObs, 0, 24), [g \in {TestGage} |-> [i \in 1..NObs |-> Num(1)]])}
AlignModData ==
    {DataArray("datetime", Stamps(NMod, sg[1], sg[2]), [g \in {TestGage} |-> v]) :
        sg \in ModGrids, v \in Tuples(NMod, Values)}
    \cup {DataArray("datetime", Stamps(NMod, 0, 12), [g \in {} |-> <<>>]),
          DataArray("int", Stamps(NMod, 0, 12), [g \in {TestGage} |-> [i \in 1..NMod |-> Num(1)]])}

BatchIdle ==
    /\ cat = [obs |-> CatalogEntry(TRUE, TRUE, obs_data),
              mod |-> CatalogEntry(TRUE, TRUE, mod_data)]
    /\ domain = <<>>
    /\ pc = "idle"
    /\ test_out = NotRun
    /\ unit = <<>>
    /\ outcome = <<>>
    /\ finished = <<>>
    /\ results = <<>>
    /\ log = <<>>
    /\ results_df = NoTable

InitAlign ==
    /\ obs_data \in AlignObsData
    /\ mod_data \in AlignModData
    /\ BatchIdle
    /\ cb_pc = "call"
    /\ cb_gage = TestGage
    /\ cb_obs = Series("int", <<>>)
    /\ cb_mod = Series("int", <<>>)
    /\ cb_df = <<>>
    /\ cb_ret = NotRun
    /\ cb_log = <<>>
    /\ RgIdle

\* lines 387-388
CbStepFetch ==
    /\ cb_pc = "call"
    /\ LET f == CbFetch(obs_data, mod_data, cb_gage)
       IN  IF f.ok
           THEN /\ cb_obs' = f.val.obs
                /\ cb_mod' = f.val.mod
                /\ cb_pc' = "fetched"
           ELSE /\ cb_pc' = "except"
                /\ UNCHANGED <<cb_obs, cb_mod>>
    /\ UNCHANGED <<cb_gage, cb_df, cb_ret, cb_log>>
    /\ UNCHANGED <<batchVars, rgVars>>

\* lines 391-392
CbStepAlign ==
    /\ cb_pc = "fetched"
    /\ LET a == CbAlign(cb_obs, cb_mod)
       IN  IF a.ok
           THEN /\ cb_obs' = a.val.obs
                /\ cb_mod' = a.val.mod
                /\ cb_pc' = "aligned"
           ELSE /\ cb_pc' = "except"
                /\ UNCHANGED <<cb_obs, cb_mod>>
    /\ UNCHANGED <<cb_gage, cb_df, cb_ret, cb_log>>
    /\ UNCHANGED <<batchVars, rgVars>>

\* line 395
CbStepMerge ==
    /\ cb_pc = "aligned"
    /\ LET j == CbMerge(cb_obs, cb_mod)
       IN  IF j.ok
           THEN /\ cb_df' = j.val
                /\ cb_pc' = "merged"
           ELSE /\ cb_pc' = "except"
                /\ UNCHANGED cb_df
    /\ UNCHANGED <<cb_gage, cb_obs, cb_mod, cb_ret, cb_log>>
    /\ UNCHANGED <<batchVars, rgVars>>

\* lines 397-413
CbStepScore ==
    /\ cb_pc = "merged"
    /\ LET s == CbScore(cb_gage, cb_df)
       IN  IF s.ok
           THEN /\ cb_ret' = s.val
                /\ cb_pc' = "returned"
           ELSE /\ cb_pc' = "except"
                /\ UNCHANGED cb_ret
    /\ UNCHANGED <<cb_gage, cb_obs, cb_mod, cb_df, cb_log>>
    /\ UNCHANGED <<batchVars, rgVars>>

\* lines 414-417
CbStepExcept ==
    /\ cb_pc = "except"
    /\ LET h == CbExcept(cb_gage)
       IN  /\ cb_ret' = h.ret
           /\ cb_log' = cb_log \o h.log
           /\ cb_pc' = IF h.raised THEN "raised" ELSE "returned"
    /\ UNCHANGED <<cb_gage, cb_obs, cb_mod, cb_df>>
    /\ UNCHANGED <<batchVars, rgVars>>

NextAlign ==
    \/ CbStepFetch
    \/ CbStepAlign
    \/ CbStepMerge
    \/ CbStepScore
    \/ CbStepExcept

SpecAlign == InitAlign /\ [][NextAlign]_vars

----------------------------------------------------------------------------
(* conus404_regrid.ipynb: bbox2ij and the subset taken from its result *)

GridRows == 2
GridCols == 2

\* where a grid node may lie, and the boxes asked for: against the first box the
\* places are inside, on the left edge and outside; against the second, on the
\* right edge, inside and inside
NodePlaces == {<<2, 2>>, <<1, 2>>, <<0, 2>>}
Boxes == {<<1, 3, 1, 3>>, <<-1, 2, 1, 3>>}

Grids == [1..GridRows -> [1..GridCols -> NodePlaces]]

\* position of the point (x, y) against the rectangle of bbox
StrictlyInside(x, y, b) == b[1] < x /\ x < b[2] /\ b[3] < y /\ y < b[4]
Outside(x, y, b) == x < b[1] \/ x > b[2] \/ y < b[3] \/ y > b[4]

OnEdge(x, y, b) == ~StrictlyInside(x, y, b) /\ ~Outside(x, y, b)

\* Path.contains_points on the rectangle: TRUE strictly inside, FALSE outside;
\* for a point on the boundary matplotlib promises neither answer, but gives the
\* same answer for the same point: every mask it may return
ContainsPoints(lo, la, b) ==
    LET nodes == (1..Len(lo)) \X (1..Len(lo[1]))
        edge  == {<<lo[q[1]][q[2]], la[q[1]][q[2]]>> : q \in
                     {q \in nodes : OnEdge(lo[q[1]][q[2]], la[q[1]][q[2]], b)}}
    IN  {[j \in 1..Len(lo) |-> [i \in 1..Len(lo[1]) |->
             \/ StrictlyInside(lo[j][i], la[j][i], b)
             \/ OnEdge(lo[j][i], la[j][i], b) /\ ans[<<lo[j][i], la[j][i]>>]]] :
         ans \in [edge -> BOOLEAN]}

\* mutant: np.meshgrid(range(n), range(m)) read as if it had the grid's shape
MeshIISwapped(n, m) == [j \in 1..n |-> [i \in 1..m |-> j - 1]]

\* ii, jj = np.meshgrid(range(m), range(n)): ii[j][i] = i, jj[j][i] = j (0-based)
MeshII(n, m) == [j \in 1..n |-> [i \in 1..m |-> i - 1]]
MeshJJ(n, m) == [j \in 1..n |-> [i \in 1..m |-> j - 1]]

\* a[mask]: the entries of a where mask is TRUE
Masked(a, mask) ==
    {a[q[1]][q[2]] : q \in {q \in (1..Len(a)) \X (1..Len(a[1])) : mask[q[1]][q[2]]}}

\* lines 122-129, for the mask contains_points returned
bbox2ij(lo, la, mask) ==
    LET n  == Len(lo)
        m  == Len(lo[1])
        ii == Masked(MeshII(n, m), mask)
        jj == Masked(MeshJJ(n, m), mask)
    IN  IF ii = {} THEN Raise("ValueError")
        ELSE Ok(<<MinOf(ii), MaxOf(ii), MinOf(jj), MaxOf(jj)>>)

\* the indices a[slice(start, stop)] selects from a dimension of length n
PySlice(start, stop, n) ==
    LET clamp(k) == IF k < 0 THEN (IF k + n < 0 THEN 0 ELSE k + n)
                    ELSE IF k > n THEN n ELSE k
    IN  {k \in 0..(n - 1) : clamp(start) <= k /\ k < clamp(stop)}

\* line 159: ds.isel(x=slice(i0-1,i1+1), y=slice(j0-1,j1+1))
IselSubset(r, n, m) ==
    [x |-> PySlice(r[1] - 1, r[2] + 1, m), y |-> PySlice(r[3] - 1, r[4] + 1, n)]

InitRegrid ==
    /\ bbox \in Boxes
    /\ \E g \in Grids :
          /\ lon = [j \in 1..GridRows |-> [i \in 1..GridCols |-> g[j][i][1]]]
          /\ lat = [j \in 1..GridRows |-> [i \in 1..GridCols |-> g[j][i][2]]]
    /\ rg_pc = "bbox2ij"
    /\ inside = <<>>
    /\ ij = <<>>
    /\ subset = {}
    /\ obs_data = Unbound
    /\ mod_data = Unbound
    /\ BatchIdle
    /\ CbIdle

\* line 147
CallBbox2ij ==
    /\ rg_pc = "bbox2ij"
    /\ \E mask \in ContainsPoints(lon, lat, bbox) :
          LET r == bbox2ij(lon, lat, mask)
          IN  /\ inside' = mask
              /\ IF r.ok
                 THEN /\ ij' = r.val
                      /\ rg_pc' = "isel"
                 ELSE /\ rg_pc' = "raised"
                      /\ UNCHANGED ij
    /\ UNCHANGED <<lon, lat, bbox, subset>>
    /\ UNCHANGED <<batchVars, cbVars>>

\* line 159
Isel ==
    /\ rg_pc = "isel"
    /\ subset' = IselSubset(ij, Len(lon), Len(lon[1]))
    /\ rg_pc' = "subset"
    /\ UNCHANGED <<lon, lat, bbox, inside, ij>>
    /\ UNCHANGED <<batchVars, cbVars>>

NextRegrid ==
    \/ CallBbox2ij
    \/ Isel

SpecRegrid == InitRegrid /\ [][NextRegrid]_vars

\* the notebook is run top to bottom and the dask scheduler runs every element
\* it was handed: a step that can be taken is eventually taken
FairSpec == Spec /\ WF_vars(Next)

----------------------------------------------------------------------------
(* Properties *)

TenMetrics == {"NSE", "KGE", "logNSE", "pbias", "rSD", "pearson", "spearman",
               "pBiasFMS", "pBiasFLV", "pBiasFHV"}

IsRecord(x) == x # None /\ x # NotRun

\* the stage of the try block that raises for gage g, "" when none does
FailingStage(g) == LET t == CbTry(obs_data, mod_data, g)
                   IN  IF t.ok THEN "" ELSE t.val

\* C1: whatever stage of compute_benchmark raises (fetch of a gage missing from
\* a dataset, index alignment, join, a metric), the call returns None and no
\* exception leaves it.
C1_FailureReturnsNone ==
    /\ cb_pc # "raised"
    /\ (cb_pc = "returned" /\ FailingStage(cb_gage) # "") => cb_ret = None

\* a call for a gage the observed dataset does not hold has returned
C1_Witness ==
    /\ cb_pc = "returned"
    /\ cb_gage \notin DOMAIN obs_data.vals
    /\ cb_ret = None

\* C2: once the bag is handed to the workers, every element completes with a
\* record or None and bag.compute() returns, whichever gages fail.
C2_BatchCompletes ==
    (pc = "compute") ~>
        (/\ pc = "assemble"
         /\ AllDone
         /\ \A i \in DOMAIN outcome : outcome[i].ret = None \/ IsRecord(outcome[i].ret))

\* the batch has reached its join point with a failed and a successful gage
C2_Witness ==
    /\ pc = "assemble"
    /\ \E i \in DOMAIN results : results[i] = None
    /\ \E i \in DOMAIN results : IsRecord(results[i])

\* the bag elements whose call returned a record
Succeeded == {i \in DOMAIN results : IsRecord(results[i])}

\* C3: with N successful and M failed gages the assembled table has exactly N
\* rows, one per successful gage and labelled with it, none for a failed gage;
\* N = 0 included.
C3_TableHasOneRowPerSuccess ==
    (pc \in {"assemble raised", "save", "done"}) =>
        /\ results_df.bound
        /\ Len(results_df.rows) = Cardinality(Succeeded)
        /\ {results_df.rows[k].label : k \in DOMAIN results_df.rows}
               = {domain[i] : i \in Succeeded}

\* C4: a record returned by compute_benchmark holds exactly the ten metrics and
\* is labelled with the gage identifier the call was given.
C4_RecordHasTenMetricsAndLabel ==
    /\ IsRecord(test_out) =>
          test_out.name = TestGage /\ DOMAIN test_out.data = TenMetrics
    /\ \A i \in DOMAIN outcome :
          (unit[i] = "done" /\ IsRecord(outcome[i].ret)) =>
              /\ outcome[i].ret.name = domain[i]
              /\ DOMAIN outcome[i].ret.data = TenMetrics

\* a unit for a gage other than the test gage has returned a record
C4_Witness ==
    \E i \in DOMAIN outcome :
        /\ unit[i] = "done"
        /\ IsRecord(outcome[i].ret)
        /\ domain[i] # TestGage

C5_WitnessNone ==
    \E i \in DOMAIN outcome :
        /\ unit[i] = "done"
        /\ domain[i] = TestGage
        /\ outcome[i].ret = None

\* C6: the joined pair handed to the metrics has no missing value in either
\* column, and every row pairs the observed and the predicted value that the
\* aligned series index by that row's daily period.
C6_JoinedPairAligned ==
    (cb_pc = "merged") =>
        \A k \in DOMAIN cb_df :
            /\ ~IsNaN(cb_df[k].observed)
            /\ ~IsNaN(cb_df[k].predicted)
            /\ \E a \in DOMAIN cb_obs.rows :
                  cb_obs.rows[a] = <<cb_df[k].period, cb_df[k].observed>>
            /\ \E b \in DOMAIN cb_mod.rows :
                  cb_mod.rows[b] = <<cb_df[k].period, cb_df[k].predicted>>

\* scoring is reached with a joined pair from which a row with a missing value
\* was dropped
C6_Witness ==
    /\ cb_pc = "merged"
    /\ cb_df # <<>>
    /\ Len(Merge(cb_obs.rows, cb_mod.rows)) > Len(cb_df)

\* what the table must hold whatever the schedule: one row per gage of the
\* domain list for which compute_benchmark returns a record
ExpectedRows ==
    {[label |-> g, data |-> compute_benchmark(obs_data, mod_data, g).ret.data] :
        g \in {domain[i] : i \in {k \in DOMAIN domain :
                  IsRecord(compute_benchmark(obs_data, mod_data, domain[k]).ret)}}}

\* C7: the assembled table, as a set of rows keyed by gage, is the same for
\* every order in which the workers start and finish the units.
C7_TableIndependentOfSchedule ==
    /\ (pc \in {"save", "done"}) =>
          {results_df.rows[k] : k \in DOMAIN results_df.rows} = ExpectedRows
    /\ (pc = "assemble raised") => ExpectedRows = {}

\* a table of two rows or more was assembled after the units finished out of
\* the order of the domain list
C7_Witness ==
    /\ pc = "done"
    /\ Len(results_df.rows) >= 2
    /\ finished[1] > finished[2]

\* C8: after bag.compute() the collected results hold exactly one outcome per
\* entry of the domain list: records plus None markers count the domain list.
C8_OneOutcomePerDomainEntry ==
    (pc \in {"assemble", "assemble raised", "save", "done"}) =>
        /\ Len(results) = Len(domain)
        /\ Cardinality({i \in DOMAIN results : IsRecord(results[i])})
             + Cardinality({i \in DOMAIN results : results[i] = None}) = Len(domain)

\* three gages were benchmarked; some failed and some did not
C8_Witness ==
    /\ pc = "assemble"
    /\ Len(domain) = 3
    /\ Cardinality({i \in DOMAIN results : results[i] = None}) >= 1
    /\ Cardinality({i \in DOMAIN results : IsRecord(results[i])}) >= 1

Nodes == (1..Len(lon)) \X (1..Len(lon[1]))
InBox(q) == StrictlyInside(lon[q[1]][q[2]], lat[q[1]][q[2]], bbox)

\* C9: when a grid node lies inside the box, bbox2ij returns i0 <= i1 and
\* j0 <= j1 and every node inside the box has its column in [i0, i1] and its
\* row in [j0, j1].
C9_Bbox2ijCovers ==
    /\ (rg_pc \in {"isel", "subset"}) =>
          /\ ij[1] <= ij[2]
          /\ ij[3] <= ij[4]
          /\ \A q \in Nodes : InBox(q) =>
                /\ ij[1] <= q[2] - 1 /\ q[2] - 1 <= ij[2]
                /\ ij[3] <= q[1] - 1 /\ q[1] - 1 <= ij[4]
    /\ (rg_pc = "raised") => ~\E q \in Nodes : InBox(q)

\* bbox2ij has returned for a grid with nodes inside the box in two rows and
\* two columns and a node outside it
C9_Witness ==
    /\ rg_pc = "isel"
    /\ \E q \in Nodes : \E r \in Nodes :
          InBox(q) /\ InBox(r) /\ q[1] # r[1] /\ q[2] # r[2]
    /\ \E q \in Nodes : Outside(lon[q[1]][q[2]], lat[q[1]][q[2]], bbox)

\* the joined pair compute_benchmark scores for gage g (when it gets that far)
GageDf(g) ==
    LET f == CbFetch(obs_data, mod_data, g)
        a == CbAlign(f.val.obs, f.val.mod)
    IN  CbMerge(a.val.obs, a.val.mod).val

\* C10: when a metric raises, the others having succeeded or not, the call
\* returns None; no record with fewer than ten metrics is returned or reaches
\* the table.
C10_NoPartialRecord ==
    /\ \A i \in DOMAIN outcome :
          unit[i] = "done" =>
              /\ FailingStage(domain[i]) = "score" => outcome[i].ret = None
              /\ IsRecord(outcome[i].ret) => Cardinality(DOMAIN outcome[i].ret.data) = 10
    /\ \A k \in DOMAIN results_df.rows :
          Cardinality(DOMAIN results_df.rows[k].data) = 10

\* a unit has returned None for a gage on whose joined pair one metric raises
\* and another does not
C10_Witness ==
    \E i \in DOMAIN outcome :
        /\ unit[i] = "done"
        /\ FailingStage(domain[i]) = "score"
        /\ LET o == Column(GageDf(domain[i]), "observed")
               p == Column(GageDf(domain[i]), "predicted")
           IN  /\ \E m \in TenMetrics : MetricRaises(m, o, p)
               /\ \E m \in TenMetrics : ~MetricRaises(m, o, p)
        /\ outcome[i].ret = None

\* C11: whatever mix of records and None markers bag.compute() returned, a
\* batch in which every gage failed included, the assembly cell raises no
\* exception and binds the result table.
C11_AggregationNeverRaises ==
    /\ pc # "assemble raised"
    /\ (pc \in {"save", "done"}) => results_df.bound

\* C12: the outcome of the unit for a gage is what compute_benchmark gives for
\* that gage and the two datasets, whatever the other units of the batch have
\* done or are doing; a running unit can return without any other unit moving.
C12_UnitIndependentOfOthers ==
    \A i \in DOMAIN unit :
        /\ (pc = "compute" /\ unit[i] = "running") => ENABLED UnitFinish(i)
        /\ (unit[i] = "done") =>
              outcome[i] = compute_benchmark(obs_data, mod_data, domain[i])

\* a unit has returned a record after another unit failed, a third unit still
\* running, and a unit later in the bag returned before an earlier one
C12_Witness ==
    /\ pc = "compute"
    /\ \E i \in DOMAIN unit : \E j \in DOMAIN unit : \E k \in DOMAIN unit :
          /\ unit[i] = "done" /\ IsRecord(outcome[i].ret)
          /\ unit[j] = "done" /\ outcome[j].ret = None
          /\ unit[k] = "running"
    /\ finished[1] > finished[2]

\* C13: once the load cell has bound them, no step of the run (the test call,
\* a unit that succeeds, a unit that fails, the gathering and the assembly)
\* changes the shared datasets obs_data and mod_data.
C13_DatasetsReadOnly ==
    [][(pc # "load") => (obs_data' = obs_data /\ mod_data' = mod_data)]_vars

\* the whole batch has run over the loaded datasets: the test call failed, a
\* unit failed and a unit returned a record
C13_Witness ==
    /\ pc = "done"
    /\ obs_data = cat.obs.da
    /\ mod_data = cat.mod.da
    /\ test_out = None
    /\ \E i \in DOMAIN outcome : outcome[i].ret = None
    /\ \E i \in DOMAIN outcome : IsRecord(outcome[i].ret)

\* C14: the assembly cell runs only after every dispatched unit has returned:
\* while the table is assembled, and afterwards, no unit is pending or running
\* and results holds the outcome of every unit of the bag.
C14_AssembleAfterAllUnits ==
    (pc \in {"assemble", "assemble raised", "save", "done"}) =>
        /\ \A i \in DOMAIN unit : unit[i] = "done"
        /\ DOMAIN results = DOMAIN unit
        /\ \A i \in DOMAIN unit : results[i] = outcome[i].ret

\* a table was assembled from a bag of three whose last element returned
\* before its first
C14_Witness ==
    /\ pc = "save"
    /\ Len(domain) = 3
    /\ \E a \in DOMAIN finished : \E b \in DOMAIN finished :
          a < b /\ finished[a] = 3 /\ finished[b] = 1

\* the outcome every failed call has, whatever raised
FailureOutcome(g) ==
    [ret |-> None, log |-> <<[msg |-> "Benchmark failed for %s", arg |-> g]>>,
     raised |-> FALSE]

\* C15: no retry. Each element of the bag is computed at most once, a unit
\* that has returned (failed or not) is never started again and keeps its
\* outcome, and a failure at any stage (a gage missing from a dataset, a type
\* mismatch of the time index, a metric dividing by zero) ends the unit in the
\* one failure outcome, None.
C15_NoRetry ==
    /\ [](/\ \A a \in DOMAIN finished : \A b \in DOMAIN finished :
                a # b => finished[a] # finished[b]
          /\ \A i \in DOMAIN unit :
                (unit[i] = "done" /\ FailingStage(domain[i]) # "") =>
                    outcome[i] = FailureOutcome(domain[i]))
    /\ [][\A i \in DOMAIN unit :
             unit[i] = "done" => (unit'[i] = "done" /\ outcome'[i] = outcome[i])]_vars

\* the batch is over; one gage failed for missing data and another inside a
\* metric, and each was computed once
C15_Witness ==
    /\ pc = "assemble"
    /\ Len(finished) = Len(domain)
    /\ \E i \in DOMAIN unit : \E j \in DOMAIN unit :
          /\ FailingStage(domain[i]) = "fetch" /\ outcome[i].ret = None
          /\ FailingStage(domain[j]) = "score" /\ outcome[j].ret = None

\* the batch is over and a gage failed on the type of the time index
C15_WitnessTypeMismatch ==
    /\ pc = "assemble"
    /\ \E i \in DOMAIN unit :
          FailingStage(domain[i]) = "align" /\ outcome[i].ret = None

\* the daily periods at which series s has a value that is not missing
PresentPeriods(s) == {s.rows[a][1] : a \in {a \in DOMAIN s.rows : ~IsNaN(s.rows[a][2])}}

\* C16: the join is an exact inner join on daily period: a period is in the
\* joined pair if and only if both the observed series and the resampled
\* predicted series hold a value for it that is not missing.
C16_ExactInnerJoin ==
    (cb_pc = "merged") =>
        {cb_df[k].period : k \in DOMAIN cb_df}
            = PresentPeriods(cb_obs) \cap PresentPeriods(cb_mod)

\* a join that kept a period, left out a period only the observed series has a
\* value for, and left out a period only the predicted series has a value for
C16_Witness ==
    /\ cb_pc = "merged"
    /\ cb_df # <<>>
    /\ PresentPeriods(cb_obs) \ PresentPeriods(cb_mod) # {}
    /\ PresentPeriods(cb_mod) \ PresentPeriods(cb_obs) # {}

\* the failure event for gage g
FailureEvent(g) == [msg |-> "Benchmark failed for %s", arg |-> g]

\* how many times the event for gage g was logged
LogCount(g) == Cardinality({k \in DOMAIN log : log[k] = FailureEvent(g)})

\* how many calls for gage g have returned None: the test cell's and the units'
FailedCalls(g) ==
    (IF test_out = None /\ g = TestGage THEN 1 ELSE 0)
    + Cardinality({i \in DOMAIN unit :
                      unit[i] = "done" /\ domain[i] = g /\ outcome[i].ret = None})

C18_SubsetCoversBox ==
    (rg_pc = "subset") =>
        /\ \A i \in ij[1]..ij[2] : i \in subset.x
        /\ \A j \in ij[3]..ij[4] : j \in subset.y

\* a subset taken after bbox2ij returned i0 = 0 holds none of the columns of
\* the box
C18_FirstColumnLost ==
    /\ rg_pc = "subset"
    /\ ij[1] = 0
    /\ subset.x \cap (ij[1]..ij[2]) = {}

\* compute_benchmark has been called: by the test cell or by a unit
BenchmarkCalled == test_out # NotRun \/ \E i \in DOMAIN unit : unit[i] # "pending"

\* C19: compute_benchmark is called only when the load cell of this run bound
\* both obs_data and mod_data: both dataset names are in the catalog, both
\* datasets hold the variable of interest, and the globals are the handles the
\* catalog gave, not unset or left from an earlier run.
C19_HandlesBoundByThisRun ==
    BenchmarkCalled =>
        /\ cat.obs.listed /\ cat.obs.has_var /\ obs_data = cat.obs.da
        /\ cat.mod.listed /\ cat.mod.has_var /\ mod_data = cat.mod.da

\* the batch has run to its table on handles an earlier run left in the kernel,
\* the observed dataset of this run lacking the variable of interest
C19_StaleRunCompletes ==
    /\ pc = "done"
    /\ cat.obs.listed /\ ~cat.obs.has_var
    /\ obs_data = StaleObsData
    /\ mod_data = StaleModData

\* no two entries of the sequence are equal
Distinct(seq) == \A a \in DOMAIN seq : \A b \in DOMAIN seq : a # b => seq[a] # seq[b]

\* the days the timestamps of a time coordinate fall on
DaysOf(time) == [a \in DOMAIN time |-> time[a] \div HoursPerDay]

\* C20: after resampling, the predicted series holds at most one value per
\* daily period; and when the observed timestamps fall on distinct days, each
\* daily period occurs at most once in the joined pair.
C20_OneRowPerPeriod ==
    /\ (cb_pc \in {"aligned", "merged"}) =>
          Distinct([a \in DOMAIN cb_mod.rows |-> cb_mod.rows[a][1]])
    /\ (cb_pc = "merged" /\ Distinct(DaysOf(obs_data.time))) =>
          Distinct([k \in DOMAIN cb_df |-> cb_df[k].period])

\* a joined pair of two periods, from observations on two days and predictions
\* of which two fell in the same resampling bin
C20_Witness ==
    /\ cb_pc = "merged"
    /\ Distinct(DaysOf(obs_data.time))
    /\ Len(cb_df) >= 2
    /\ \E a \in DOMAIN mod_data.time : \E b \in DOMAIN mod_data.time :
          a # b /\ Bin(mod_data.time[a]) = Bin(mod_data.time[b])

\* two observations on the same day give the joined pair the same period twice
C20_DuplicateWhenSameDay ==
    /\ cb_pc = "merged"
    /\ ~Distinct(DaysOf(obs_data.time))
    /\ ~Distinct([k \in DOMAIN cb_df |-> cb_df[k].period])

=============================================================================
